---- MODULE Spec2Model ----
(***************************************************************************)
(* Model of shared/pwsave.py: class PassphraseSaver.                        *)
(*                                                                          *)
(* One PassphraseSaver object, the MicroSD slot it talks to, the settings   *)
(* and the display.  append() and make_menu() are broken into one action    *)
(* per storage operation, so that the card can be pulled, put back or       *)
(* exchanged between any two of them.                                       *)
(***************************************************************************)
EXTENDS Integers, Sequences, FiniteSets, TLC

\* ------------------------------------------------------------------ bounds
MaxAppends == 2      \* append() calls in one run
MaxSelect == 1       \* menu selections in one run
MaxSecrets == 3      \* secrets handed to the hint computation in SpecHint

\* ------------------------------------------------------- program constants
MaxN == 7            \* for N in range(1, 8)
KeyLen == 32         \* assert len(key) == 32

\* -------------------------------------------------------------- data sets
Media == {"A", "B"}                 \* MicroSD cards that may be inserted
NoCard == "none"


Star == "*"

\* secrets are character sequences
S_a     == <<"a">>
S_ab    == <<"a", "b">>
S_ba    == <<"b", "a">>
S_alpha == <<"a", "l", "p", "h", "a">>
S_apple == <<"a", "p", "p", "l", "e">>
S_azure == <<"a", "z", "u", "r", "e">>
S_longx == <<"a","a","a","a","a","a","a","x","a","a","a","a","a","a","a">>
S_longy == <<"a","a","a","a","a","a","a","y","a","a","a","a","a","a","a">>

\* what callers hand to append() in the main specification: two secrets,
\* the second with a fingerprint that is not the wallet's under it
Inputs == {[xfp |-> 1, pw |-> S_a], [xfp |-> 1, pw |-> S_ab]}

\* outcomes of the master-secret subsystem: a 32-byte key, an exception,
\* a key of another length
SvModes == {"ok", "fail", "short"}

\* secrets used by the hint specification
HintPool == {S_a, S_ab, S_ba, S_alpha, S_apple, S_azure, S_longx, S_longy}

Record(x, p) == [xfp |-> x, pw |-> p]

\* longest record list a run can store: the old vault's record and one
\* per append() call
MaxItems == MaxAppends + 1

VARIABLES
    slot,       \* card in the slot, or NoCard
    card,       \* CardSlot scope: "closed", "live" (mounted), "dead" (card pulled)
    file,       \* per card: the .fseventsd. file
    key,        \* self.key: "unset", "None" or a key
    pc,         \* position of the running call
    xfp, bip39pw,   \* arguments of the running append()
    data,       \* local 'data' of append() / make_menu()
    msg,        \* local 'msg' of append()
    screen,     \* what the display shows
    aret,       \* how the last append() ended
    ncalls,     \* append() calls made so far
    nsel,       \* menu selections made so far
    menu,       \* labels of the menu returned by make_menu(), <<>> if None
    idx,        \* index handed to doit (0 = none)
    dret,       \* how the last doit() ended
    mret,       \* how the last make_menu() ended
    svUsed,     \* stash.SensitiveValues in the last call: "no" if it was
                \* not entered, else how it answered
    activePw,   \* passphrase in effect (set_bip39_passphrase)
    settings,   \* settings: xfp and b39skip
    io,         \* last cipher operation: which card, which key
    hist,       \* per card: records of the append() calls that wrote it
    clean,      \* every append() so far ended in "Saved."
    file0,      \* files as they were when the running append() was called
    fileInit,   \* files as they were at the start of the run
    hpws, hres  \* hint computation: input and result (SpecHint)

vars == <<slot, card, file, key, pc, xfp, bip39pw, data, msg, screen,
          aret, ncalls, menu, idx, dret, activePw, settings, io, hist,
          clean, file0, fileInit, nsel, mret, svUsed, hpws, hres>>

envVars  == <<slot, card, file>>
callVars == <<xfp, bip39pw, data, msg>>
menuVars == <<menu, idx, dret, activePw, settings, nsel, mret>>
hintVars == <<hpws, hres>>
ghost    == <<io, hist, clean, file0, fileInit>>

\* ------------------------------------------------------------ the cipher
\* AES-256 in CTR mode: update() XORs onto the bytes the stream of the
\* object's key, taken from the object's counter on.  Applying the same
\* stream twice gives the bytes back, applying another one does not.  ks is
\* the set of streams (key, counter) currently applied to the bytes.
EmptyTxt == [kind |-> "empty", val |-> <<>>]      \* zero bytes
JunkTxt  == [kind |-> "junk",  val |-> <<>>]      \* bytes that are not JSON
NumTxt   == [kind |-> "num",   val |-> <<>>]      \* the JSON document 7
NoFile   == [exists |-> FALSE, ks |-> {}, txt |-> EmptyTxt]

Bytes(ks, txt) == [exists |-> TRUE, ks |-> ks, txt |-> txt]

KeyOf(m) == "k" \o m                \* sv.encryption_key(card.get_id_hash())

\* tcc.AES(tcc.AES.CTR | mode, key): a new cipher object, counter at its start
tcc_AES(k) == [key |-> k, ctr |-> 0]

\* cipher.update(b)
update(c, b) ==
    IF b.txt.kind = "empty" THEN b
    ELSE [b EXCEPT !.ks = (b.ks \ {c}) \cup ({c} \ b.ks)]

\* tcc.AES(..., k).update(b): one update on a cipher object made for it
AES_update(k, b) == update(tcc_AES(k), b)

\* ujson.dumps / ujson.loads
dumps(d) == Bytes({}, [kind |-> "json", val |-> d])
\* loads gives back whatever JSON value the bytes hold, a list or not.
\* NotAList stands for the number 7 as a value of 'data': it is truthy, has
\* no append() and cannot be iterated.
NotAList == <<[xfp |-> 0, pw |-> <<>>]>>
loadsOK(b) == b.ks = {} /\ b.txt.kind \in {"json", "num"}
loads(b) == IF b.txt.kind = "num" THEN NotAList ELSE b.txt.val

\* _read decrypting with a cipher object that has already been used
_read_SharedCipher(k, f, live) ==
    IF ~live \/ ~f.exists THEN <<>>
    ELSE LET txt == update([key |-> k, ctr |-> 1], f)
         IN  IF loadsOK(txt) THEN loads(txt) ELSE <<>>

\* _read(card) with self.key = k, the card still mounted iff live
_read(k, f, live) ==
    IF ~live \/ ~f.exists THEN <<>>
    ELSE LET txt == AES_update(k, f)
         IN  IF loadsOK(txt) THEN loads(txt) ELSE <<>>

Truthy(k) == k \notin {"unset", "None"}

\* the file is there, but decrypting under k or parsing fails: _read's except
Unreadable(f, k) == f.exists /\ ~loadsOK(AES_update(k, f))

\* sv.encryption_key(salt) for each state of the master-secret subsystem;
\* ShortKey is a result of 16 bytes
ShortKey == "k16"
encryption_key(m, mode) == IF mode = "short" THEN ShortKey ELSE KeyOf(m)

\* len(key)
KeyLength(k) == IF k = ShortKey THEN 16 ELSE KeyLen

\* _calc_key without 'assert len(key) == 32'
_calc_key_NoAssert(k, live, m, mode) ==
    IF Truthy(k) THEN k
    ELSE IF ~live THEN "None"
    ELSE IF mode = "fail" THEN "None"
    ELSE encryption_key(m, mode)

\* _calc_key(card): the value of self.key afterwards
_calc_key(k, live, m, mode) ==
    IF Truthy(k) THEN k                          \* if getattr(self, 'key', 0): return
    ELSE IF ~live THEN "None"                    \* card.get_id_hash() raises
    ELSE IF mode = "fail" THEN "None"            \* SensitiveValues raises
    ELSE IF KeyLength(encryption_key(m, mode)) # KeyLen
         THEN "None"                             \* assert len(key) == 32
    ELSE encryption_key(m, mode)

\* _calc_key(card) gets as far as 'with stash.SensitiveValues(...)'
EntersSv(k, live) == ~Truthy(k) /\ live

NoIO == [op |-> "none", medium |-> NoCard, key |-> "unset"]

\* ------------------------------------------------------------------ hints
Min(a, b) == IF a < b THEN a ELSE b
Max(a, b) == IF a > b THEN a ELSE b

Stars(n) == [i \in 1..n |-> Star]

MaskLen(s, N) == IF Len(s) > N THEN Len(s) - N ELSE 0

PrefixPart(s, N) == SubSeq(s, 1, Min(N, Len(s))) \o Stars(MaskLen(s, N))
SuffixPart(s, N) == Stars(MaskLen(s, N)) \o SubSeq(s, Max(1, Len(s) - N + 1), Len(s))

PrefixParts(pws, N) == [i \in 1..Len(pws) |-> PrefixPart(pws[i], N)]
SuffixParts(pws, N) == [i \in 1..Len(pws) |-> SuffixPart(pws[i], N)]

Range(s) == {s[i] : i \in 1..Len(s)}
AllUnique(parts, pws) == Cardinality(Range(parts)) = Len(pws)

\* the loop with the two tests of one round exchanged
RECURSIVE HintLoop_SuffixFirst(_, _)
HintLoop_SuffixFirst(pws, N) ==
    IF N > MaxN THEN [parts |-> pws, N |-> 0, how |-> "full"]
    ELSE IF AllUnique(SuffixParts(pws, N), pws)
         THEN [parts |-> SuffixParts(pws, N), N |-> N, how |-> "suffix"]
    ELSE IF AllUnique(PrefixParts(pws, N), pws)
         THEN [parts |-> PrefixParts(pws, N), N |-> N, how |-> "prefix"]
    ELSE HintLoop_SuffixFirst(pws, N + 1)

RECURSIVE HintLoop(_, _)
HintLoop(pws, N) ==
    IF N > MaxN THEN [parts |-> pws, N |-> 0, how |-> "full"]
    ELSE IF AllUnique(PrefixParts(pws, N), pws)
         THEN [parts |-> PrefixParts(pws, N), N |-> N, how |-> "prefix"]
    ELSE IF AllUnique(SuffixParts(pws, N), pws)
         THEN [parts |-> SuffixParts(pws, N), N |-> N, how |-> "suffix"]
    ELSE HintLoop(pws, N + 1)

Hints(pws) == HintLoop(pws, 1)

RECURSIVE DedupLoop(_, _, _)
DedupLoop(d, i, pws) ==
    IF i > Len(d) THEN pws
    ELSE DedupLoop(d, i + 1,
                   IF d[i].pw \in Range(pws) THEN pws ELSE Append(pws, d[i].pw))

Dedup(d) == DedupLoop(d, 1, <<>>)

\* ------------------------------------------------------------ environment
\* a vault left on card B by an earlier session of this device
OldVault == AES_update(KeyOf("B"), dumps(<<Record(1, S_a)>>))

\* a file on card B that decrypts, under the key of B, to the JSON document 7
NumVault == AES_update(KeyOf("B"), Bytes({}, NumTxt))

\* the fingerprint the wallet has once passphrase p is in effect
XfpOf(p) == IF p = S_a THEN 1 ELSE 2

Init ==
    /\ slot \in Media \cup {NoCard}
    /\ card = "closed"
    /\ file \in {f \in [Media -> {NoFile, Bytes({}, JunkTxt), OldVault,
                                 NumVault}] : f["A"] = NoFile}
    /\ key = "unset"
    /\ pc = "idle"
    /\ xfp = 0 /\ bip39pw = <<>> /\ data = <<>> /\ msg = NoFile
    /\ screen = ""
    /\ aret = "none"
    /\ ncalls = 0 /\ nsel = 0
    /\ menu = <<>> /\ idx = 0 /\ dret = "none" /\ mret = "none"
    /\ svUsed = "no"
    /\ activePw = <<>>
    /\ settings = [xfp |-> XfpOf(<<>>), b39skip |-> FALSE]
    /\ io = NoIO
    /\ hist = [m \in Media |-> <<>>]
    /\ clean = TRUE
    /\ file0 = file
    /\ fileInit = file
    /\ hpws = <<>> /\ hres = [parts |-> <<>>, N |-> 0, how |-> "none"]

\* the card is pulled: a scope that had it mounted loses it for good
Remove ==
    /\ slot # NoCard
    /\ slot' = NoCard
    /\ card' = IF card = "live" THEN "dead" ELSE card
    /\ UNCHANGED <<file, key, pc, callVars, screen, aret, ncalls,
                   menuVars, ghost, svUsed, hintVars>>

Insert(m) ==
    /\ slot = NoCard
    /\ slot' = m
    /\ UNCHANGED <<card, file, key, pc, callVars, screen, aret, ncalls,
                   menuVars, ghost, svUsed, hintVars>>

\* the locals of a call are gone when it ends
NoLocals ==
    /\ xfp' = 0 /\ bip39pw' = <<>>
    /\ data' = <<>> /\ msg' = NoFile

\* ----------------------------------------------------------------- append
\* await PassphraseSaver.append(xfp, bip39pw) is called
append(x, p) ==
    /\ pc = "idle"
    /\ ncalls < MaxAppends
    /\ ncalls' = ncalls + 1
    /\ xfp' = x /\ bip39pw' = p
    /\ data' = <<>> /\ msg' = NoFile
    /\ aret' = "none"
    /\ file0' = file
    /\ pc' = "a_top"
    /\ idx' = 0 /\ dret' = "none" /\ mret' = "none"
    /\ io' = NoIO
    /\ svUsed' = "no"
    /\ UNCHANGED <<envVars, key, screen, menu, activePw, settings, nsel,
                   hist, clean, fileInit, hintVars>>

\* while 1: dis.fullscreen('Saving...'); with CardSlot() as card:
A_Enter ==
    /\ pc = "a_top"
    /\ screen' = "Saving..."
    /\ IF slot = NoCard
       THEN /\ pc' = "a_prompt"             \* except CardMissingError
            /\ card' = "closed"
       ELSE /\ pc' = "a_calc"
            /\ card' = "live"
    /\ UNCHANGED <<slot, file, key, callVars, aret, ncalls, menuVars,
                   ghost, svUsed, hintVars>>

\* self._calc_key(card)
A_CalcKey ==
    /\ pc = "a_calc"
    /\ \E mode \in SvModes :
          /\ key' = _calc_key(key, card = "live", slot, mode)
          /\ svUsed' = IF EntersSv(key, card = "live") THEN mode ELSE svUsed
    /\ pc' = "a_read"
    /\ UNCHANGED <<envVars, callVars, screen, aret, ncalls, menuVars,
                   ghost, hintVars>>

\* A_Read taking a file it cannot read for a missing card
A_Read_PromptOnUnreadable ==
    /\ pc = "a_read"
    /\ LET old == IF Truthy(key)
                  THEN _read(key, IF card = "live" THEN file[slot] ELSE NoFile,
                             card = "live")
                  ELSE <<>>
           d   == Append(old, Record(xfp, bip39pw))
       IN  /\ io' = IF Truthy(key) /\ card = "live" /\ file[slot].exists
                    THEN [op |-> "read", medium |-> slot, key |-> key]
                    ELSE io
           /\ IF Truthy(key) /\ card = "live" /\ Unreadable(file[slot], key)
              THEN /\ pc' = "a_prompt"
                   /\ card' = "closed"
                   /\ UNCHANGED <<callVars, aret, clean>>
              ELSE IF Truthy(key) /\ old # NotAList
              THEN /\ data' = d
                   /\ msg' = AES_update(key, dumps(d))
                   /\ pc' = "a_open"
                   /\ UNCHANGED <<card, aret, clean>>
                   /\ UNCHANGED <<xfp, bip39pw>>
              ELSE /\ NoLocals
                   /\ card' = "closed"
                   /\ aret' = "raised"
                   /\ clean' = FALSE
                   /\ pc' = "idle"
    /\ UNCHANGED <<slot, file, key, screen, ncalls,
                   menuVars, hist, file0, fileInit, svUsed, hintVars>>

\* data = self._read(card) if self.key else []; data.append(...);
\* encrypt = tcc.AES(..., self.key); msg = encrypt.update(ujson.dumps(data))
A_Read ==
    /\ pc = "a_read"
    /\ LET old == IF Truthy(key)
                  THEN _read(key, IF card = "live" THEN file[slot] ELSE NoFile,
                             card = "live")
                  ELSE <<>>
           d   == Append(old, Record(xfp, bip39pw))
       IN  /\ io' = IF Truthy(key) /\ card = "live" /\ file[slot].exists
                    THEN [op |-> "read", medium |-> slot, key |-> key]
                    ELSE io
           /\ IF Truthy(key) /\ old # NotAList
              THEN /\ data' = d
                   /\ msg' = AES_update(key, dumps(d))
                   /\ pc' = "a_open"
                   /\ UNCHANGED <<card, aret, clean>>
                   /\ UNCHANGED <<xfp, bip39pw>>
              ELSE \* data.append on a value that is not a list, or
                   \* tcc.AES(mode, None): the exception leaves append()
                   /\ NoLocals
                   /\ card' = "closed"
                   /\ aret' = "raised"
                   /\ clean' = FALSE
                   /\ pc' = "idle"
    /\ UNCHANGED <<slot, file, key, screen, ncalls,
                   menuVars, hist, file0, fileInit, svUsed, hintVars>>

\* A_Open with "Saved." put on the display as soon as the file is open
A_Open_SavedEarly ==
    /\ pc = "a_open"
    /\ IF card = "live"
       THEN /\ file' = [file EXCEPT ![slot] = Bytes({}, EmptyTxt)]
            /\ screen' = "Saved."
            /\ pc' = "a_write"
            /\ UNCHANGED card
       ELSE /\ pc' = "a_prompt"
            /\ card' = "closed"
            /\ UNCHANGED <<file, screen>>
    /\ UNCHANGED <<slot, key, callVars, aret, ncalls, menuVars,
                   ghost, svUsed, hintVars>>

\* with open(self.filename(card), 'wb') as fd:   (truncates the file)
A_Open ==
    /\ pc = "a_open"
    /\ IF card = "live"
       THEN /\ file' = [file EXCEPT ![slot] = Bytes({}, EmptyTxt)]
            /\ pc' = "a_write"
            /\ UNCHANGED card
       ELSE /\ pc' = "a_prompt"             \* medium missing
            /\ card' = "closed"
            /\ UNCHANGED file
    /\ UNCHANGED <<slot, key, callVars, screen, aret, ncalls, menuVars,
                   ghost, svUsed, hintVars>>

\* A_Write with the pause moved inside 'with CardSlot() as card:'
A_Write_KeepScope ==
    /\ pc = "a_write"
    /\ IF card = "live"
       THEN /\ file' = [file EXCEPT ![slot] = msg]
            /\ io' = [op |-> "write", medium |-> slot, key |-> key]
            /\ hist' = [hist EXCEPT ![slot] = Append(@, Record(xfp, bip39pw))]
            /\ screen' = "Saved."
            /\ pc' = "a_pause"
            /\ UNCHANGED card
       ELSE /\ pc' = "a_prompt"
            /\ card' = "closed"
            /\ UNCHANGED <<file, io, hist, screen>>
    /\ UNCHANGED <<slot, key, callVars, aret, ncalls, menuVars, clean,
                   file0, fileInit, svUsed, hintVars>>

\* fd.write(msg); leave both with-blocks; await ux_dramatic_pause("Saved.", 2)
A_Write ==
    /\ pc = "a_write"
    /\ IF card = "live"
       THEN /\ file' = [file EXCEPT ![slot] = msg]
            /\ io' = [op |-> "write", medium |-> slot, key |-> key]
            /\ hist' = [hist EXCEPT ![slot] = Append(@, Record(xfp, bip39pw))]
            /\ screen' = "Saved."
            /\ pc' = "a_pause"
       ELSE /\ pc' = "a_prompt"             \* medium missing
            /\ UNCHANGED <<file, io, hist, screen>>
    /\ card' = "closed"
    /\ UNCHANGED <<slot, key, callVars, aret, ncalls, menuVars, clean,
                   file0, fileInit, svUsed, hintVars>>

\* the pause is over: return
A_Return ==
    /\ pc = "a_pause"
    /\ aret' = "saved"
    /\ pc' = "idle"
    /\ NoLocals
    /\ UNCHANGED <<envVars, key, screen, ncalls, menuVars, ghost, svUsed,
                   hintVars>>

\* ch = await needs_microsd(); any key but 'x' goes round the loop again
A_Retry ==
    /\ pc = "a_prompt"
    /\ pc' = "a_top"
    /\ UNCHANGED <<envVars, key, callVars, screen, aret, ncalls, menuVars,
                   ghost, svUsed, hintVars>>

\* if ch == 'x': break
A_Cancel ==
    /\ pc = "a_prompt"
    /\ aret' = "cancel"
    /\ clean' = FALSE
    /\ pc' = "idle"
    /\ NoLocals
    /\ UNCHANGED <<envVars, key, screen, ncalls, menuVars, io,
                   hist, file0, fileInit, svUsed, hintVars>>

\* -------------------------------------------------------------- make_menu
\* return None; why is the place make_menu() returned from
ReturnNone(why) ==
    /\ menu' = <<>>
    /\ card' = "closed"
    /\ pc' = "idle"
    /\ mret' = why

\* make_menu() is called: with CardSlot() as card:
make_menu ==
    /\ pc = "idle"
    /\ nsel < MaxSelect
    /\ IF slot = NoCard
       THEN ReturnNone("nocard")            \* except CardMissingError
       ELSE /\ card' = "live"
            /\ menu' = <<>>
            /\ pc' = "m_stat"
            /\ mret' = "none"
    /\ aret' = "none" /\ idx' = 0 /\ dret' = "none"
    /\ io' = NoIO
    /\ svUsed' = "no"
    /\ UNCHANGED <<slot, file, key, callVars, screen,
                   ncalls, activePw, settings, nsel, hist, clean, file0,
                   fileInit, hintVars>>

\* M_Stat without the os.stat check
M_Stat_NoCheck ==
    /\ pc = "m_stat"
    /\ pc' = "m_calc"
    /\ UNCHANGED <<card, menu, mret>>
    /\ UNCHANGED <<slot, file, key, callVars, screen, aret, ncalls,
                   idx, dret, activePw, settings, nsel, ghost, svUsed,
                   hintVars>>

\* os.stat(self.filename(card)); any exception: return None
M_Stat ==
    /\ pc = "m_stat"
    /\ IF card = "live" /\ file[slot].exists
       THEN /\ pc' = "m_calc"
            /\ UNCHANGED <<card, menu, mret>>
       ELSE ReturnNone("nofile")
    /\ UNCHANGED <<slot, file, key, callVars, screen, aret, ncalls,
                   idx, dret, activePw, settings, nsel, ghost, svUsed,
                   hintVars>>

\* M_CalcKey without 'if not self.key: return None'
M_CalcKey_NoGuard ==
    /\ pc = "m_calc"
    /\ \E mode \in SvModes :
          /\ key' = _calc_key(key, card = "live", slot, mode)
          /\ svUsed' = IF EntersSv(key, card = "live") THEN mode ELSE svUsed
    /\ pc' = "m_read"
    /\ UNCHANGED <<card, menu, mret>>
    /\ UNCHANGED <<slot, file, callVars, screen, aret, ncalls,
                   idx, dret, activePw, settings, nsel, ghost, hintVars>>

\* self._calc_key(card); if not self.key: return None
M_CalcKey ==
    /\ pc = "m_calc"
    /\ \E mode \in SvModes :
          /\ key' = _calc_key(key, card = "live", slot, mode)
          /\ svUsed' = IF EntersSv(key, card = "live") THEN mode ELSE svUsed
    /\ IF Truthy(key')
       THEN /\ pc' = "m_read"
            /\ UNCHANGED <<card, menu, mret>>
       ELSE ReturnNone("nokey")
    /\ UNCHANGED <<slot, file, callVars, screen, aret, ncalls,
                   idx, dret, activePw, settings, nsel, ghost, hintVars>>

\* data = self._read(card); if not data: return None; dedup, hints, MenuSystem
\* _read() builds its cipher before its try: without a key that raises, and
\* make_menu() catches CardMissingError only.
M_Read ==
    /\ pc = "m_read"
    /\ IF ~Truthy(key)
       THEN /\ ReturnNone("raised")
            /\ data' = <<>>
            /\ UNCHANGED io
       ELSE LET d == _read(key, IF card = "live" THEN file[slot] ELSE NoFile,
                           card = "live")
            IN  /\ data' = IF d = NotAList THEN <<>> ELSE d
                /\ io' = IF card = "live" /\ file[slot].exists
                         THEN [op |-> "read", medium |-> slot, key |-> key]
                         ELSE io
                /\ IF d = <<>>
                   THEN ReturnNone("nodata")
                   ELSE IF d = NotAList    \* for i in data: TypeError
                   THEN ReturnNone("raised")
                   ELSE /\ menu' = Hints(Dedup(d)).parts
                        /\ card' = "closed"
                        /\ pc' = "menu"
                        /\ mret' = "menu"
    /\ UNCHANGED <<slot, file, key, xfp, bip39pw, msg, screen, aret,
                   ncalls, idx, dret, activePw, settings, nsel, hist, clean,
                   file0, fileInit, svUsed, hintVars>>

\* the user leaves the menu without picking an item
M_Back ==
    /\ pc = "menu"
    /\ pc' = "idle"
    /\ menu' = <<>>
    /\ data' = <<>>
    /\ UNCHANGED <<envVars, key, xfp, bip39pw, msg, screen, aret, ncalls,
                   idx, dret, activePw, settings, nsel, mret, ghost, svUsed,
                   hintVars>>

\* doit(menu, idx, item): item i of the menu is picked (i is 1-based here).
\* fails: set_bip39_passphrase() returns an error text.
doit(i, fails) ==
    /\ pc = "menu"
    /\ i \in 1..Len(menu)
    /\ nsel < MaxSelect
    /\ nsel' = nsel + 1
    /\ idx' = i
    /\ IF fails
       THEN /\ screen' = "Fail"              \* ux_show_story(err, title="Fail")
            /\ dret' = "fail"
            /\ pc' = "d_story"
            /\ UNCHANGED <<activePw, settings, menu, data>>
       ELSE /\ activePw' = data[i].pw
            /\ settings' = [xfp |-> XfpOf(data[i].pw), b39skip |-> TRUE]
            /\ IF settings'.xfp = data[i].xfp
               THEN /\ screen' = "Passphrase restored."
                    /\ dret' = "restored"
                    /\ pc' = "d_story"
                    /\ UNCHANGED <<menu, data>>
               ELSE \* assert xfp == data[idx].get('xfp') raises out of doit
                    /\ dret' = "AssertionError"
                    /\ pc' = "idle"
                    /\ menu' = <<>> /\ data' = <<>>
                    /\ UNCHANGED screen
    /\ UNCHANGED <<envVars, key, xfp, bip39pw, msg, aret, ncalls, ghost,
                   mret, svUsed, hintVars>>

\* the story is dismissed; goto_top_menu() after "Passphrase restored."
D_Done ==
    /\ pc = "d_story"
    /\ pc' = "idle"
    /\ menu' = <<>>
    /\ data' = <<>>
    /\ UNCHANGED <<envVars, key, xfp, bip39pw, msg, screen, aret, ncalls,
                   idx, dret, activePw, settings, nsel, mret, ghost, svUsed,
                   hintVars>>

Next ==
    \/ Remove
    \/ \E m \in Media : Insert(m)
    \/ \E r \in Inputs : append(r.xfp, r.pw)
    \/ A_Enter
    \/ A_CalcKey
    \/ A_Read
    \/ A_Open
    \/ A_Write
    \/ A_Return
    \/ A_Retry
    \/ A_Cancel
    \/ make_menu
    \/ M_Stat
    \/ M_CalcKey
    \/ M_Read
    \/ M_Back
    \/ \E i \in 1..MaxItems, fails \in BOOLEAN : doit(i, fails)
    \/ D_Done

Spec == Init /\ [][Next]_vars

TypeOK == pc \in {"idle", "a_top", "a_calc", "a_read", "a_open", "a_write",
                  "a_pause", "a_prompt", "m_stat", "m_calc", "m_read",
                  "menu", "d_story"}

\* ------------------------------------------------------ append, claims
\* what _read gives for card m under the saver's key
Stored(m) == _read(key, file[m], TRUE)

\* C1 (as stated): on a card that started without a vault file, once every
\* append() call so far has ended in "Saved." (so the key was derived) and
\* no other card was written, the file decrypts to exactly the appended
\* records, in the order of the calls.
C1_AppendInvariant ==
    \A m \in Media :
        ( /\ fileInit[m] = NoFile
          /\ \A o \in Media \ {m} : file[o] = fileInit[o]
          /\ clean
          /\ pc = "idle" )
            => Stored(m) = hist[m]

\* a storage operation of append() is about to find the card gone
MediumMissing ==
    /\ card = "dead"
    /\ \/ pc = "a_calc" /\ ~Truthy(key)
       \/ pc = "a_read" /\ Truthy(key)
       \/ pc \in {"a_open", "a_write"}

\* C6 (as stated): append() ends only by a completed write or by the user's
\* cancel at the prompt; every medium-missing condition leads to the prompt;
\* a completed write stores the new record after all records stored before.
C6_RetryUntilWrittenOrCancelled ==
    [][ /\ aret' \in {"none", "saved", "cancel"}
        /\ (MediumMissing /\ pc' # pc) => pc' = "a_prompt"
        /\ pc' = "a_pause" =>
              _read(key', file'[io'.medium], TRUE)
                  = Append(_read(key', file0'[io'.medium], TRUE),
                           Record(xfp', bip39pw')) ]_vars

\* C7 (as stated): after a cancel at the prompt every vault file has the
\* content it had when append() was called.
C7_CancelLeavesFile ==
    (aret = "cancel" /\ pc = "idle") => file = file0

\* C10 (as stated): every blob written to or decrypted from a card is
\* processed under the key derived from that card's identity hash.
C10_KeyOfSameMedium ==
    io.op # "none" => io.key = KeyOf(io.medium)

\* ----------------------------------------------------- restore, claims
\* C2 (as stated): picking item i applies the i-th secret of the
\* deduplicated list, the one label i hints at.
C2_SelectsHintedSecret ==
    [][ \A i \in 1..Len(menu) :
          (pc = "menu" /\ idx' = i /\ nsel' = nsel + 1 /\ dret' = "restored")
              => activePw' = Dedup(data)[i] ]_vars

\* item i of the menu is picked and the record's xfp is not the wallet's
Mismatch(i) ==
    /\ pc = "menu" /\ nsel' = nsel + 1 /\ idx' = i
    /\ dret' # "fail"
    /\ data[i].xfp # XfpOf(data[i].pw)

\* C8 (as stated): when the record's xfp does not match, the secret is not
\* applied and no setting is changed.
C8_VerifiedBeforeApplied ==
    [][ \A i \in 1..Len(menu) :
          Mismatch(i) => (activePw' = activePw /\ settings' = settings) ]_vars

\* C9 (as stated): a mismatch is reported as a failure story and aborts; it
\* is never an unhandled exception and never "Passphrase restored.".
C9_MismatchIsAStory ==
    [][ \A i \in 1..Len(menu) :
          Mismatch(i) => /\ pc' = "d_story"
                         /\ screen' = "Fail"
                         /\ dret' # "AssertionError" ]_vars

\* ------------------------------------------------- key unavailable, claims
\* C11 (as stated): when append() goes on without a key it stops hard: the
\* file is neither read nor written and no exception leaves append().
C11_HardStopNoCrash ==
    [][ (pc = "a_read" /\ ~Truthy(key) /\ pc' # pc)
            => (file' = file /\ io' = io /\ aret' # "raised") ]_vars

\* C12: when make_menu() cannot derive the key it returns no menu, raises
\* nothing and runs no cipher over the file.
C12_NoKeyNoMenu ==
    [][ (pc = "m_calc" /\ pc' # pc /\ ~Truthy(key'))
            => (pc' = "idle" /\ menu' = <<>> /\ mret' = "nokey"
                /\ card' = "closed" /\ io' = io) ]_vars

C12_Witness == pc = "idle" /\ mret = "nokey" /\ ~Truthy(key) /\ io = NoIO

\* ------------------------------------------------------ the read layer
\* the bytes of f do not give a record list under key k: no file, bytes that
\* are no JSON under k, or a JSON document that is not a list
NotRecordList(f, k) ==
    \/ ~f.exists
    \/ LET t == AES_update(k, f) IN t.ks # {} \/ t.txt.kind # "json"

\* C13 (as stated): with a key present, a read of a file that holds no record
\* list gives the empty list and nothing is raised: append() goes on with
\* the new record alone, make_menu() with no records.
C13_ReadGivesEmptyList ==
    [][ (/\ pc \in {"a_read", "m_read"} /\ pc' # pc
         /\ Truthy(key) /\ card = "live"
         /\ NotRecordList(file[slot], key))
            => /\ aret' # "raised" /\ mret' # "raised"
               /\ pc = "a_read" => data' = <<Record(xfp, bip39pw)>>
               /\ pc = "m_read" => data' = <<>> ]_vars

C15_ScopeReleasedWhileSuspended ==
    pc \in {"a_pause", "a_prompt", "menu", "d_story"} => card = "closed"

C15_Witness ==
    /\ pc = "a_pause" /\ card = "closed" /\ slot # NoCard
    /\ file[slot] = msg /\ screen = "Saved."

\* C16: the cached key is unset, None, or a key of exactly 32 bytes.
C16_KeyAbsentOr32Bytes ==
    /\ key \in {"unset", "None"} \cup {KeyOf(m) : m \in Media}
    /\ Truthy(key) => KeyLength(key) = KeyLen

\* the master-secret subsystem answered with 16 bytes and nothing was cached
C16_Witness == svUsed = "short" /\ key = "None"

\* C17: make_menu() that finds no vault file returns no menu, raises nothing
\* and has not entered the master-secret subsystem; when make_menu() does
\* enter it, the file is there on the mounted card.
C17_StatBeforeKey ==
    [][ /\ (pc = "m_stat" /\ pc' # pc /\ ~(card = "live" /\ file[slot].exists))
            => (pc' = "idle" /\ menu' = <<>> /\ mret' = "nofile"
                /\ svUsed' = "no" /\ key' = key)
        /\ (pc \in {"m_stat", "m_calc", "m_read"} /\ svUsed' # svUsed)
            => (card = "live" /\ file[slot].exists) ]_vars

\* no file on the mounted card, and make_menu() has returned on that
C17_Witness ==
    /\ pc = "idle" /\ mret = "nofile" /\ svUsed = "no"
    /\ slot # NoCard /\ ~file[slot].exists

\* C18: append() that finds a vault file it cannot decrypt or parse goes on,
\* without a prompt and without raising, with the new record alone; when its
\* write is done the file reads back as that one record.
C18_UnreadableIsEmptyVault ==
    [][ /\ (/\ pc = "a_read" /\ pc' # pc /\ Truthy(key)
            /\ card = "live" /\ Unreadable(file[slot], key))
            => (/\ pc' = "a_open" /\ aret' = aret
                /\ data' = <<Record(xfp, bip39pw)>>
                /\ _read(key, msg', TRUE) = <<Record(xfp, bip39pw)>>)
        /\ (/\ pc = "a_write" /\ pc' = "a_pause"
            /\ Unreadable(file0[slot], key) /\ Len(hist[slot]) = 0)
            => (/\ _read(key, file'[slot], TRUE) = <<Record(xfp, bip39pw)>>
                /\ screen' = "Saved.") ]_vars

\* the file was there and unreadable when append() was called; now it holds
\* the one new record
C18_Witness ==
    /\ pc = "a_pause" /\ io.op = "write"
    /\ Unreadable(fileInit[io.medium], key)
    /\ Len(hist[io.medium]) = 1
    /\ _read(key, file[io.medium], TRUE) = <<Record(xfp, bip39pw)>>

\* C19: "Saved." comes onto the display only with the write done, the file
\* then reading back as a list that ends in the record of this call; after
\* it the call does nothing but return, so it is shown once per call.
C19_SavedOnlyAfterWrite ==
    [][ /\ (screen' = "Saved." /\ screen # "Saved.")
            => (/\ pc = "a_write" /\ pc' = "a_pause"
                /\ io'.op = "write" /\ file'[io'.medium] = msg
                /\ LET s == _read(key, file'[io'.medium], TRUE)
                   IN  s # <<>> /\ s[Len(s)] = Record(xfp, bip39pw))
        /\ (pc = "a_pause" /\ pc' # pc)
            => (pc' = "idle" /\ aret' = "saved" /\ screen' = screen
                /\ file' = file)
        /\ (pc \in {"a_calc", "a_read", "a_open", "a_write", "a_prompt"})
            => (screen' = "Saved." => pc' = "a_pause") ]_vars

C19_Witness ==
    /\ pc = "a_pause" /\ screen = "Saved." /\ io.op = "write"
    /\ Len(_read(key, file[io.medium], TRUE)) >= 2
    /\ ncalls >= 2

\* ------------------------------------------------- the hint computation
\* The for-loop of make_menu on its own: the input is any list of pairwise
\* different secrets (what the dedup loop hands over), the step runs the loop.
NoHints == [parts |-> <<>>, N |-> 0, how |-> "none"]

DistinctSeqs(S, n) ==
    {q \in UNION {[1..k -> S] : k \in 0..n} :
        \A i, j \in 1..Len(q) : i # j => q[i] # q[j]}

InitHint ==
    /\ slot = NoCard /\ card = "closed"
    /\ file = [m \in Media |-> NoFile]
    /\ key = "unset" /\ pc = "idle"
    /\ xfp = 0 /\ bip39pw = <<>> /\ data = <<>> /\ msg = NoFile
    /\ screen = "" /\ aret = "none" /\ ncalls = 0 /\ nsel = 0
    /\ menu = <<>> /\ idx = 0 /\ dret = "none" /\ activePw = <<>>
    /\ mret = "none" /\ svUsed = "no"
    /\ settings = [xfp |-> XfpOf(<<>>), b39skip |-> FALSE]
    /\ io = NoIO /\ hist = [m \in Media |-> <<>>] /\ clean = TRUE
    /\ file0 = file /\ fileInit = file
    /\ hpws \in DistinctSeqs(HintPool, MaxSecrets)
    /\ hres = NoHints

ComputeHints ==
    /\ hres.how = "none"
    /\ hres' = Hints(hpws)
    /\ UNCHANGED <<envVars, key, pc, callVars, screen, aret, ncalls,
                   menuVars, ghost, svUsed, hpws>>

NextHint == ComputeHints

SpecHint == InitHint /\ [][NextHint]_vars

PairwiseDistinct(q) == \A i, j \in 1..Len(q) : i # j => q[i] # q[j]

\* some N in 1..7 makes the prefix or the suffix fragments pairwise distinct
DistinctAt(pws, N) ==
    \/ PairwiseDistinct(PrefixParts(pws, N))
    \/ PairwiseDistinct(SuffixParts(pws, N))

SomeN(pws) == \E N \in 1..MaxN : DistinctAt(pws, N)

LeastN(pws) ==
    CHOOSE N \in 1..MaxN :
        DistinctAt(pws, N) /\ \A M \in 1..(N - 1) : ~DistinctAt(pws, M)

Computed == hres.how # "none"

\* C3 (as stated): k pairwise-distinct secrets give k pairwise-distinct
\* labels, and the labels are the unmasked secrets only if no N in 1..7
\* makes the prefix or the suffix fragments pairwise distinct.
C3_Distinctness ==
    Computed =>
        /\ Len(hres.parts) = Len(hpws)
        /\ PairwiseDistinct(hres.parts)
        /\ (hpws # <<>> /\ hres.parts = hpws) => ~SomeN(hpws)

\* C4: without fallback the labels are those of the least N in 1..7 at which
\* the prefix or the suffix fragments are pairwise distinct, the prefix ones
\* whenever they are distinct at that N; alpha/apple/azure gives al***, ap***,
\* az***.
C4_Minimality ==
    (Computed /\ hres.how # "full") =>
        /\ SomeN(hpws)
        /\ LET n == LeastN(hpws)
           IN  hres.parts = IF PairwiseDistinct(PrefixParts(hpws, n))
                            THEN PrefixParts(hpws, n)
                            ELSE SuffixParts(hpws, n)
        /\ hpws = <<S_alpha, S_apple, S_azure>> =>
               hres.parts = << <<"a", "l", Star, Star, Star>>,
                               <<"a", "p", Star, Star, Star>>,
                               <<"a", "z", Star, Star, Star>> >>

C4_Witness ==
    /\ hpws = <<S_alpha, S_apple, S_azure>>
    /\ hres.how = "prefix"
    /\ hres.N = 2

\* C5 (as stated): outside the fallback every label differs from the secret
\* it stands for, whatever the length of the secret.
C5_NoLabelIsSecret ==
    (Computed /\ hres.how # "full") =>
        \A i \in 1..Len(hpws) : hres.parts[i] # hpws[i]
====
